---- MODULE Spec2Model ----
(***************************************************************************)
(* The Python command bridge of frontend/src-tauri/src/lib.rs:             *)
(* call_python_backend locates the backend directory, writes the request   *)
(* to backend/temp_payload.json, runs `python main.py <command> <file>`,   *)
(* removes the file and decodes the worker's stdout as a CommandResponse.  *)
(***************************************************************************)
EXTENDS Integers, Sequences, FiniteSets, TLC

(***************************************************************************)
(* JSON values (serde_json::Value): a record with its tag t and, under a   *)
(* field name of its own, what the value holds.                            *)
(* Numbers keep their decimal digits, so that the i32 range check of       *)
(* CommandResponse.count is computed on the digits (2147483648 is no       *)
(* 32-bit integer).  Object members are kept as the sequence the text      *)
(* holds, repeated keys included.                                          *)
(***************************************************************************)
JNull == [t |-> "null"]
JBool(b) == [t |-> "bool", b |-> b]
JStr(s) == [t |-> "str", s |-> s]
JNum(neg, digits, frac) == [t |-> "num", neg |-> neg, digits |-> digits, frac |-> frac]
JArr(elems) == [t |-> "arr", elems |-> elems]
JObj(members) == [t |-> "obj", members |-> members]
Member(key, val) == [key |-> key, val |-> val]

(***************************************************************************)
(* JSON text, as the sequence of its lexical tokens [k |-> kind, s |-> _]:  *)
(* punctuation, string literals, number literals, the literals true, false *)
(* and null, white space, and "junk" for any text that is no JSON token    *)
(* (a Python traceback, a log line).  "bytes" is a run of bytes that is    *)
(* not valid UTF-8; it occurs in captured process output only.             *)
(***************************************************************************)
Punct(c) == [k |-> "punct", s |-> c]
StrTok(s) == [k |-> "str", s |-> s]
NumTok(neg, digits, frac) == [k |-> "num", neg |-> neg, digits |-> digits, frac |-> frac]
Lit(w) == [k |-> "lit", s |-> w]
Ws == [k |-> "ws", s |-> " "]
Junk(s) == [k |-> "junk", s |-> s]
BadBytes == [k |-> "bytes", s |-> "\\xff"]
Eof == [k |-> "eof", s |-> ""]

IsPunct(tok, c) == tok.k = "punct" /\ tok.s = c

\* String::from_utf8_lossy: every invalid byte run becomes U+FFFD, which is
\* ordinary text; valid text is kept as it is.
from_utf8_lossy(bytes) ==
    [n \in 1..Len(bytes) |->
        IF bytes[n].k = "bytes" THEN Junk("U+FFFD") ELSE bytes[n]]

(***************************************************************************)
(* serde_json's serializer for a map (CommandPayload is a flattened        *)
(* HashMap<String, Value>): the entries in the order the map iterates      *)
(* them, which for a HashMap is arbitrary; `order` is that order.          *)
(***************************************************************************)
RECURSIVE ValueTokens(_), JoinValues(_, _), JoinMembers(_, _)
ValueTokens(val) ==
    CASE val.t = "null" -> <<Lit("null")>>
      [] val.t = "bool" -> <<Lit(IF val.b THEN "true" ELSE "false")>>
      [] val.t = "str" -> <<StrTok(val.s)>>
      [] val.t = "num" -> <<NumTok(val.neg, val.digits, val.frac)>>
      [] val.t = "arr" -> <<Punct("[")>> \o JoinValues(val.elems, 1) \o <<Punct("]")>>
      [] val.t = "obj" -> <<Punct("{")>> \o JoinMembers(val.members, 1) \o <<Punct("}")>>
JoinValues(elems, n) ==
    IF n > Len(elems) THEN <<>>
    ELSE (IF n > 1 THEN <<Punct(",")>> ELSE <<>>)
         \o ValueTokens(elems[n]) \o JoinValues(elems, n + 1)
JoinMembers(members, n) ==
    IF n > Len(members) THEN <<>>
    ELSE (IF n > 1 THEN <<Punct(",")>> ELSE <<>>)
         \o <<StrTok(members[n].key), Punct(":")>>
         \o ValueTokens(members[n].val) \o JoinMembers(members, n + 1)

\* The orders in which a map with these keys can be iterated.
Orders(keys) ==
    {o \in [1..Cardinality(keys) -> keys] :
        \A a, b \in 1..Cardinality(keys) : a # b => o[a] # o[b]}

\* to_string leaving out the entries whose value is null.
to_string_skip_null(data, order) ==
    ValueTokens(JObj(SelectSeq([n \in 1..Len(order) |-> Member(order[n], data[order[n]])],
                               LAMBDA m : m.val.t # "null")))

\* serde_json::to_string(&payload): total for string keys and Value values.
to_string(data, order) ==
    ValueTokens(JObj([n \in 1..Len(order) |-> Member(order[n], data[order[n]])]))

(***************************************************************************)
(* serde_json's reader: a recursive-descent parse of the token text.       *)
(* A parse step returns [ok, val, pos]: pos is the first unread token.     *)
(***************************************************************************)
ParseOk(val, pos) == [ok |-> TRUE, val |-> val, pos |-> pos]
ParseErr == [ok |-> FALSE, val |-> JNull, pos |-> 0]
TokAt(toks, n) == IF n <= Len(toks) THEN toks[n] ELSE Eof

RECURSIVE ParseValue(_, _), ParseElements(_, _, _), ParseMembers(_, _, _)
ParseValue(toks, n) ==
    LET tok == TokAt(toks, n) IN
    CASE tok.k = "lit" ->
            ParseOk(IF tok.s = "null" THEN JNull ELSE JBool(tok.s = "true"), n + 1)
      [] tok.k = "str" -> ParseOk(JStr(tok.s), n + 1)
      [] tok.k = "num" -> ParseOk(JNum(tok.neg, tok.digits, tok.frac), n + 1)
      [] IsPunct(tok, "[") ->
            IF IsPunct(TokAt(toks, n + 1), "]") THEN ParseOk(JArr(<<>>), n + 2)
            ELSE ParseElements(toks, n + 1, <<>>)
      [] IsPunct(tok, "{") ->
            IF IsPunct(TokAt(toks, n + 1), "}") THEN ParseOk(JObj(<<>>), n + 2)
            ELSE ParseMembers(toks, n + 1, <<>>)
      [] OTHER -> ParseErr
ParseElements(toks, n, acc) ==
    LET e == ParseValue(toks, n) IN
    IF ~e.ok THEN ParseErr
    ELSE IF IsPunct(TokAt(toks, e.pos), ",")
         THEN ParseElements(toks, e.pos + 1, Append(acc, e.val))
    ELSE IF IsPunct(TokAt(toks, e.pos), "]")
         THEN ParseOk(JArr(Append(acc, e.val)), e.pos + 1)
    ELSE ParseErr
ParseMembers(toks, n, acc) ==
    IF ~(TokAt(toks, n).k = "str" /\ IsPunct(TokAt(toks, n + 1), ":")) THEN ParseErr
    ELSE LET e == ParseValue(toks, n + 2) IN
         IF ~e.ok THEN ParseErr
         ELSE IF IsPunct(TokAt(toks, e.pos), ",")
              THEN ParseMembers(toks, e.pos + 1, Append(acc, Member(TokAt(toks, n).s, e.val)))
         ELSE IF IsPunct(TokAt(toks, e.pos), "}")
              THEN ParseOk(JObj(Append(acc, Member(TokAt(toks, n).s, e.val))), e.pos + 1)
         ELSE ParseErr

\* White space between tokens is skipped; anything left after the value is
\* an error ("trailing characters").
SkipWs(text) == SelectSeq(text, LAMBDA tok : tok.k # "ws")
ParseJson(text) ==
    LET toks == SkipWs(text)
        r == ParseValue(toks, 1)
    IN IF r.ok /\ r.pos = Len(toks) + 1 THEN r ELSE ParseErr

(***************************************************************************)
(* CommandResponse (lines 12-55): success: bool and twenty Option fields,  *)
(* in declaration order, each with the type serde decodes it as.           *)
(***************************************************************************)
Field(name, ty) == [name |-> name, ty |-> ty]
CommandResponse ==
    << Field("success", "bool"),
       Field("error", "String"), Field("message", "String"),
       Field("response", "String"), Field("timestamp", "String"),
       Field("url", "String"), Field("title", "String"),
       Field("content", "String"), Field("type", "String"),
       Field("data", "Value"), Field("count", "i32"),
       Field("analysis", "String"), Field("keywords", "Vec<String>"),
       Field("summary", "String"), Field("id", "String"),
       Field("session_id", "String"), Field("role", "String"),
       Field("messages", "Vec<Value>"), Field("model", "String"),
       Field("context_summary", "Value"), Field("history", "Vec<Value>") >>

FieldNames == {CommandResponse[n].name : n \in 1..Len(CommandResponse)}
FieldTypeOf(name) == CommandResponse[CHOOSE n \in 1..Len(CommandResponse) : CommandResponse[n].name = name].ty

\* i32::MAX = 2147483647 and -i32::MIN = 2147483648, as decimal digits.
I32MaxDigits == <<2, 1, 4, 7, 4, 8, 3, 6, 4, 7>>
I32MinDigits == <<2, 1, 4, 7, 4, 8, 3, 6, 4, 8>>

\* a <= b for two digit sequences of the same length.
RECURSIVE DigitsLeq(_, _, _)
DigitsLeq(a, b, n) ==
    IF n > Len(a) THEN TRUE
    ELSE IF a[n] < b[n] THEN TRUE
    ELSE IF a[n] > b[n] THEN FALSE
    ELSE DigitsLeq(a, b, n + 1)

\* FitsI32 without the range check.
FitsI32Unchecked(num) == ~num.frac

\* The i32 visitor: an integer literal (no fraction, no exponent) within
\* i32::MIN..i32::MAX.  JSON integers have no leading zeros.
FitsI32(num) ==
    /\ ~num.frac
    /\ LET limit == IF num.neg THEN I32MinDigits ELSE I32MaxDigits IN
       \/ Len(num.digits) < Len(limit)
       \/ Len(num.digits) = Len(limit) /\ DigitsLeq(num.digits, limit, 1)

None == [some |-> FALSE, val |-> JNull]
Some(val) == [some |-> TRUE, val |-> val]

\* Whether a JSON value deserializes as the (non-Option) type ty.
Accepts(ty, val) ==
    CASE ty = "bool" -> val.t = "bool"
      [] ty = "String" -> val.t = "str"
      [] ty = "i32" -> val.t = "num" /\ FitsI32(val)
      [] ty = "Value" -> TRUE
      [] ty = "Vec<String>" ->
            val.t = "arr" /\ \A n \in 1..Len(val.elems) : val.elems[n].t = "str"
      [] ty = "Vec<Value>" -> val.t = "arr"

\* DeserializeField for fields declared without Option: null is a type error.
DeserializeFieldRequired(ty, val) ==
    IF Accepts(ty, val) THEN [ok |-> TRUE, opt |-> Some(val)]
    ELSE [ok |-> FALSE, opt |-> None]

\* One field's value.  Every field but success is an Option: JSON null is
\* None, anything else must deserialize as the inner type.
\* [ok, opt]: ok is FALSE on a type error.
DeserializeField(ty, val) ==
    IF ty # "bool" /\ val.t = "null" THEN [ok |-> TRUE, opt |-> None]
    ELSE IF Accepts(ty, val) THEN [ok |-> TRUE, opt |-> Some(val)]
    ELSE [ok |-> FALSE, opt |-> None]

(***************************************************************************)
(* The Visitor that #[derive(Deserialize)] generates for CommandResponse.  *)
(* visit_map: members in text order; a known key seen twice is a           *)
(* duplicate-field error, an unknown key is skipped, a value of the wrong  *)
(* type is an error; at the end a missing success is an error and a        *)
(* missing Option field is None.                                           *)
(* `seen` maps the keys met so far to their decoded Option.                *)
(***************************************************************************)
RECURSIVE visit_map(_, _, _)
visit_map(members, n, seen) ==
    IF n > Len(members)
    THEN IF "success" \in DOMAIN seen
         THEN [ok |-> TRUE,
               val |-> [f \in FieldNames |-> IF f \in DOMAIN seen THEN seen[f] ELSE None]]
         ELSE [ok |-> FALSE, val |-> <<>>]
    ELSE LET key == members[n].key IN
         IF key \notin FieldNames THEN visit_map(members, n + 1, seen)
         ELSE IF key \in DOMAIN seen THEN [ok |-> FALSE, val |-> <<>>]
         ELSE LET d == DeserializeField(FieldTypeOf(key), members[n].val) IN
              IF ~d.ok THEN [ok |-> FALSE, val |-> <<>>]
              ELSE visit_map(members, n + 1,
                             [f \in DOMAIN seen \cup {key} |->
                                 IF f = key THEN d.opt ELSE seen[f]])

\* visit_seq: the fields by position; every one of them must be there
\* (invalid_length otherwise), and serde_json's end_seq rejects any element
\* after the last field.
visit_seq(elems) ==
    LET d == [n \in 1..Len(CommandResponse) |->
                 IF n <= Len(elems)
                 THEN DeserializeField(CommandResponse[n].ty, elems[n])
                 ELSE [ok |-> FALSE, opt |-> None]]
    IN IF Len(elems) = Len(CommandResponse) /\ \A n \in 1..Len(CommandResponse) : d[n].ok
       THEN [ok |-> TRUE,
             val |-> [f \in FieldNames |->
                        d[CHOOSE n \in 1..Len(CommandResponse) : CommandResponse[n].name = f].opt]]
       ELSE [ok |-> FALSE, val |-> <<>>]

\* serde_json's deserialize_struct: '[' goes to visit_seq, '{' to visit_map,
\* any other value is an invalid-type error.
deserialize_struct(val) ==
    CASE val.t = "arr" -> visit_seq(val.elems)
      [] val.t = "obj" -> visit_map(val.members, 1, <<>>)
      [] OTHER -> [ok |-> FALSE, val |-> <<>>]

\* serde_json::from_str::<CommandPayload>(text), the Deserialize derived on
\* lines 6-10: a JSON object read into the flattened HashMap<String, Value>
\* (of a repeated key the last value stays); anything else is an error.
payload_from_str(text) ==
    LET p == ParseJson(text) IN
    IF ~(p.ok /\ p.val.t = "obj") THEN [ok |-> FALSE, map |-> <<>>]
    ELSE LET ms == p.val.members
             last(key) == CHOOSE n \in 1..Len(ms) :
                             /\ ms[n].key = key
                             /\ \A k \in (n + 1)..Len(ms) : ms[k].key # key
         IN [ok |-> TRUE,
             map |-> [key \in {ms[n].key : n \in 1..Len(ms)} |-> ms[last(key)].val]]

\* serde_json::from_str::<CommandResponse>(text) (line 168).
from_str(text) ==
    LET p == ParseJson(text) IN
    IF p.ok THEN deserialize_struct(p.val) ELSE [ok |-> FALSE, val |-> <<>>]

(***************************************************************************)
(* Paths and the filesystem.  An absolute path is the sequence of its      *)
(* components, the root is <<>>.  fs maps every existing path to its       *)
(* entry: a directory, or a file with its content.                         *)
(***************************************************************************)
Dir == [kind |-> "dir", data |-> <<>>]
File(data) == [kind |-> "file", data |-> data]
Missing == [kind |-> "missing", data |-> <<>>]

join(p, name) == Append(p, name)
\* Path::parent: None for the root.
has_parent(p) == Len(p) > 0
parent(p) == SubSeq(p, 1, Len(p) - 1)
\* Path::file_name() == Some(OsStr::new(name)); the root has no file name.
file_name_is(p, name) == Len(p) > 0 /\ p[Len(p)] = name
exists(files, p) == p \in DOMAIN files
Lookup(files, p) == IF p \in DOMAIN files THEN files[p] ELSE Missing
Prefixes(p) == {SubSeq(p, 1, n) : n \in 0..Len(p)}

\* The filesystem with p created or overwritten, and with p removed.
WithEntry(files, p, entry) ==
    [q \in DOMAIN files \cup {p} |-> IF q = p THEN entry ELSE files[q]]
Without(files, p) == [q \in DOMAIN files \ {p} |-> files[q]]

\* The filesystem without p and everything below it.
WithoutTree(files, p) ==
    [q \in {r \in DOMAIN files : ~(Len(r) >= Len(p) /\ SubSeq(r, 1, Len(p)) = p)} |-> files[q]]

\* A filesystem holding these directories (and their ancestors) and files.
Layout(dirs, filePaths) ==
    LET ds == UNION {Prefixes(d) : d \in dirs}
             \cup UNION {Prefixes(parent(f)) : f \in filePaths}
    IN [q \in ds \cup filePaths |-> IF q \in filePaths THEN File(<<>>) ELSE Dir]

VARIABLES
    debug,              \* cfg!(debug_assertions) of the build
    windows,            \* cfg!(target_os = "windows") of the build
    fs,                 \* the filesystem
    cwd,                \* the process's current working directory
    exe_dir,            \* the directory of the running executable
    mutable,            \* whether the environment changes between invocations
    tasks,              \* the invocations the caller layer runs
    requests,           \* the calls the command catalog makes
    main_py,            \* which main.py is installed (see Outcomes)
    pc,                 \* per task: where call_python_backend stands
    command,            \* per task: the `command` argument
    payload,            \* per task: the `payload.data` argument
    current_dir,        \* per task: the locals of call_python_backend ...
    path,
    backend_path,
    payload_json,
    python_executable,
    temp_file,
    output,
    result,             \* per task: what the call returned
    worker,             \* per task: the spawned main.py process
    did                 \* per task: what this invocation has done so far

config == <<debug, windows, tasks, requests, main_py, exe_dir, mutable>>
locals == <<command, payload, current_dir, path, backend_path, payload_json,
            python_executable, temp_file, output>>
vars == <<debug, windows, fs, cwd, exe_dir, mutable, tasks, requests, main_py, pc, command, payload,
          current_dir, path, backend_path, payload_json, python_executable,
          temp_file, output, result, worker, did>>

Tasks == {1, 2}

\* Values of locals that are not set yet.
NoPath == <<"<unset>">>
NoText == <<>>
NoPayload == [unset |-> JNull]
NoOutput == [status |-> 0, stdout |-> <<>>, stderr |-> <<>>]
NoWorker == [state |-> "none", program |-> [kind |-> "none", v |-> <<>>],
             args |-> <<>>, current_dir |-> NoPath, env |-> <<>>,
             read |-> FALSE, found |-> Missing]
Nothing == [created |-> FALSE, spawned |-> FALSE, removed |-> "no", steps |-> 0]

\* Result<CommandResponse, String>.  An Err is the message's fixed text
\* (kind) and what is formatted into it (info); OsError stands for the
\* operating system's message.
Pending == [tag |-> "Pending"]
Ok(response) == [tag |-> "Ok", response |-> response]
Err(kind, info) == [tag |-> "Err", kind |-> kind, info |-> info]
OsError == [e |-> "os error"]

(***************************************************************************)
(* Inputs.  The commands of the catalog used here and their request maps   *)
(* (hello_backend, lines 175-187; process_url, lines 190-195).             *)
(***************************************************************************)
Calls ==
    { [command |-> "hello",
       data |-> ("name" :> JStr("Ada")) @@ ("timestamp" :> JStr("1700000000"))],
      [command |-> "process_url",
       data |-> ("url" :> JStr("https://example.org"))] }

\* Bounds of the generated inputs.
MaxMembers == 2
MaxDepth == 2
MaxMarkers == 2
MaxPayload == 2

Seven == JNum(FALSE, <<7>>, FALSE)
\* For a few keys of the response, values of the field's type, null, and
\* values of another type; "extra" is a key CommandResponse does not have.
MemberChoices ==
    {Member("error", v) : v \in {JStr("boom"), JStr(""), JNull, Seven}}
    \cup {Member("data", v) : v \in {JObj(<<>>), JNull, JStr("d")}}
    \cup {Member("count", v) :
            v \in {Seven, JNum(FALSE, I32MaxDigits, FALSE), JNum(TRUE, I32MinDigits, FALSE),
                   JNum(FALSE, I32MinDigits, FALSE), JNum(FALSE, <<1, 5>>, TRUE),
                   JStr("7"), JNull}}
    \cup {Member("keywords", v) :
            v \in {JArr(<<>>), JArr(<<JStr("a")>>), JArr(<<JStr("a"), Seven>>), JNull}}
    \cup {Member("messages", v) : v \in {JArr(<<JStr("a"), Seven>>), JNull, JStr("m")}}
    \cup {Member("extra", v) : v \in {JStr("e"), JNull}}

\* Request maps as the frontend may pass them to call_python_backend: up to
\* MaxPayload keys, with strings, numbers, null, booleans, arrays and
\* objects as values.
PayloadKeys == {"query", "limit", "opts"}
PayloadValues ==
    { JStr("q"), JStr(""), Seven, JNum(TRUE, <<1, 5>>, TRUE), JNull, JBool(FALSE),
      JArr(<<Seven, JNull>>), JObj(<<Member("a", JArr(<<>>))>>) }
PayloadMaps ==
    UNION {[ks -> PayloadValues] : ks \in {k \in SUBSET PayloadKeys : Cardinality(k) <= MaxPayload}}

RECURSIVE SeqsUpTo(_, _)
SeqsUpTo(S, n) ==
    IF n = 0 THEN {<<>>}
    ELSE LET shorter == SeqsUpTo(S, n - 1) IN
         shorter \cup {Append(q, x) : q \in shorter, x \in S}

\* Objects with a boolean success first and up to MaxMembers more members.
ObjectValues ==
    {JObj(<<Member("success", JBool(TRUE))>> \o ms) : ms \in SeqsUpTo(MemberChoices, MaxMembers)}

\* Other JSON values: objects without a usable success, arrays (one with as
\* many elements as CommandResponse has fields), scalars.
FullArray(first) ==
    JArr([n \in 1..Len(CommandResponse) |-> IF n = 1 THEN first ELSE JNull])
OtherValues ==
    { JObj(<<>>),
      JObj(<<Member("success", JBool(FALSE))>>),
      JObj(<<Member("success", JStr("yes"))>>),
      JObj(<<Member("success", JNull)>>),
      JObj(<<Member("error", JStr("boom"))>>),
      JObj(<<Member("success", JBool(TRUE)), Member("success", JBool(TRUE))>>),
      JArr(<<>>), JArr(<<JBool(TRUE)>>), JArr(<<Seven, JStr("a")>>),
      FullArray(JBool(TRUE)), FullArray(JStr("yes")),
      JArr(FullArray(JBool(TRUE)).elems \o <<JNull>>),
      JBool(TRUE), JNull, JStr("ok"), Seven }

\* Texts that are no JSON document.
BrokenTexts ==
    LET good == ValueTokens(JObj(<<Member("success", JBool(TRUE))>>)) IN
    { <<>>, <<Junk("Traceback")>>, <<BadBytes>>,
      good \o <<Junk("done")>>, <<Junk("log")>> \o good, good \o good,
      SubSeq(good, 1, Len(good) - 1),
      <<Punct("{"), StrTok("success"), Lit("true"), Punct("}")>>,
      <<Punct("{"), StrTok("success"), Punct(":"), Lit("true"), Punct(","), Punct("}")>>,
      <<Punct("["), Lit("true"), Punct(",")>>,
      <<Punct("{"), Lit("true"), Punct(":"), Lit("true"), Punct("}")>> }

\* Python's print ends the line: white space after the document.
AllStdouts ==
    {ValueTokens(v) : v \in ObjectValues \cup OtherValues}
    \cup {ValueTokens(v) \o <<Ws>> : v \in {JObj(<<Member("success", JBool(TRUE))>>)}}
    \cup BrokenTexts
FewStdouts ==
    { ValueTokens(JObj(<<Member("success", JBool(TRUE)), Member("message", JStr("hi"))>>)),
      <<Junk("Traceback")>> }
Stderrs == {<<>>, <<Junk("Traceback")>>, <<BadBytes>>}

Outcome(status, stdout, stderr) == [status |-> status, stdout |-> stdout, stderr |-> stderr]
FewOutcomes ==
    {Outcome(0, d, <<>>) : d \in FewStdouts}
    \cup {Outcome(1, <<Junk("Traceback")>>, <<Junk("Traceback")>>)}
AllOutcomes ==
    {Outcome(0, d, <<>>) : d \in AllStdouts}
    \cup {Outcome(1, d, e) : d \in FewStdouts \cup {<<>>, <<BadBytes>>}, e \in Stderrs}
\* What the installed main.py may exit with: [status, stdout, stderr].
Outcomes(script) ==
    CASE script = "succeeds" ->
            {Outcome(0, ValueTokens(JObj(<<Member("success", JBool(TRUE))>>)), <<>>)}
      [] script = "flaky" -> FewOutcomes
      [] script = "any" -> AllOutcomes

\* The repository's layout: browser/ holds frontend/src-tauri and backend/,
\* with or without the virtual environment's interpreter.
Workspace == <<"browser">>
VenvUnix == <<"browser", "backend", "venv", "bin", "python">>
VenvWindows == <<"browser", "backend", "venv", "Scripts", "python.exe">>
RepoLayouts ==
    {Layout({<<"browser", "frontend", "src-tauri", "target", "debug">>,
             <<"browser", "backend">>}, venv) :
        venv \in {{}, {VenvUnix}, {VenvWindows}}}

\* Generated layouts: a working directory of up to MaxDepth components and
\* up to MaxMarkers directories named backend or frontend placed in the
\* working directory or in its ancestors.
DirNames == {"browser", "frontend", "debug", "backend", "app"}
WorkingDirs == SeqsUpTo(DirNames, MaxDepth)
MarkerDirs(wd) == {join(a, m) : a \in Prefixes(wd), m \in {"backend", "frontend"}}
MarkerSets(wd) == {ms \in SUBSET MarkerDirs(wd) : Cardinality(ms) <= MaxMarkers}

InitLocals ==
    /\ pc = [i \in Tasks |-> "idle"]
    /\ command = [i \in Tasks |-> ""]
    /\ payload = [i \in Tasks |-> NoPayload]
    /\ current_dir = [i \in Tasks |-> NoPath]
    /\ path = [i \in Tasks |-> NoPath]
    /\ backend_path = [i \in Tasks |-> NoPath]
    /\ payload_json = [i \in Tasks |-> NoText]
    /\ python_executable = [i \in Tasks |-> [kind |-> "none", v |-> <<>>]]
    /\ temp_file = [i \in Tasks |-> NoPath]
    /\ output = [i \in Tasks |-> NoOutput]
    /\ result = [i \in Tasks |-> Pending]
    /\ worker = [i \in Tasks |-> NoWorker]
    /\ did = [i \in Tasks |-> Nothing]

\* Two invocations at once in the repository's layout.
InitConcurrent ==
    /\ tasks = Tasks
    /\ debug = TRUE /\ windows = FALSE
    /\ fs = Layout({<<"browser", "backend">>}, {})
    /\ cwd = Workspace
    /\ exe_dir = Workspace
    /\ mutable = FALSE
    /\ requests = Calls
    /\ main_py = "flaky"

\* One invocation at a time, from any generated working directory; the
\* process was started there or in a subdirectory of the executable's.
InitLocate ==
    /\ tasks = {1}
    /\ debug \in BOOLEAN /\ windows = FALSE
    /\ cwd \in WorkingDirs
    /\ exe_dir \in {cwd} \cup (IF has_parent(cwd) THEN {parent(cwd)} ELSE {})
    /\ mutable = FALSE
    /\ \E ms \in MarkerSets(cwd) : fs = Layout({cwd} \cup ms, {})
    /\ requests = {r \in Calls : r.command = "process_url"}
    /\ main_py = "succeeds"

\* One invocation at a time in the repository's layout, for both OS
\* families, with and without the virtual environment.
InitResolve ==
    /\ tasks = {1}
    /\ debug \in BOOLEAN /\ windows \in BOOLEAN
    /\ fs \in RepoLayouts
    /\ cwd \in {<<"browser", "frontend", "src-tauri">>,
                <<"browser", "frontend", "src-tauri", "target", "debug">>}
    /\ exe_dir = <<"browser", "frontend", "src-tauri", "target", "debug">>
    /\ mutable = FALSE
    /\ requests = Calls
    /\ main_py = "flaky"

\* One invocation at a time in the repository's layout, with every output.
InitCodec ==
    /\ tasks = {1}
    /\ debug = TRUE /\ windows = FALSE
    /\ fs = Layout({<<"browser", "frontend", "src-tauri">>, <<"browser", "backend">>}, {})
    /\ cwd = <<"browser", "frontend">>
    /\ exe_dir = <<"browser", "frontend", "src-tauri">>
    /\ mutable = FALSE
    /\ requests = {r \in Calls : r.command = "process_url"}
    /\ main_py = "any"

\* A sequence of invocations between which the process changes its working
\* directory and backend directories come and go: the directories the
\* process may move to, and the backend directories that may be made.
Places == {<<>>, <<"browser">>, <<"browser", "frontend", "src-tauri">>, <<"app">>}
BackendPlaces == {<<"browser", "backend">>, <<"app", "backend">>}
InitRederive ==
    /\ tasks = {1}
    /\ debug \in BOOLEAN /\ windows = FALSE
    /\ fs = Layout({<<"browser", "frontend", "src-tauri">>, <<"browser", "backend">>,
                    <<"app">>}, {})
    /\ cwd = <<"browser", "frontend", "src-tauri">>
    /\ exe_dir = <<"browser", "frontend", "src-tauri">>
    /\ mutable = TRUE
    /\ requests = {r \in Calls : r.command = "process_url"}
    /\ main_py = "succeeds"

\* One invocation at a time of an installed (release) build, with one of
\* the generated request maps.
InitEncode ==
    /\ tasks = {1}
    /\ debug = FALSE /\ windows = FALSE
    /\ fs = Layout({<<"app", "backend">>}, {})
    /\ cwd = <<"app">>
    /\ exe_dir = <<"app">>
    /\ mutable = FALSE
    /\ \E m \in PayloadMaps : requests = {[command |-> "search", data |-> m]}
    /\ main_py = "succeeds"

Init ==
    InitLocals /\ (InitConcurrent \/ InitLocate \/ InitResolve \/ InitCodec \/ InitRederive
                   \/ InitEncode)

(***************************************************************************)
(* call_python_backend (lines 64-172), one action per step that reads or   *)
(* writes the filesystem or the worker process.                            *)
(***************************************************************************)
Return(i, r) ==
    /\ result' = [result EXCEPT ![i] = r]
    /\ pc' = [pc EXCEPT ![i] = "done"]

\* Call with the backend directory kept from the call before (a cache): the
\* directory is located only when none has been resolved yet.
CallCached(i) ==
    /\ i \in tasks
    /\ pc[i] \in {"idle", "done"}
    /\ \E r \in requests :
        /\ command' = [command EXCEPT ![i] = r.command]
        /\ payload' = [payload EXCEPT ![i] = r.data]
    /\ payload_json' = [payload_json EXCEPT ![i] = NoText]
    /\ python_executable' = [python_executable EXCEPT ![i] = [kind |-> "none", v |-> <<>>]]
    /\ temp_file' = [temp_file EXCEPT ![i] = NoPath]
    /\ output' = [output EXCEPT ![i] = NoOutput]
    /\ worker' = [worker EXCEPT ![i] = NoWorker]
    /\ did' = [did EXCEPT ![i] = Nothing]
    /\ current_dir' = [current_dir EXCEPT ![i] = cwd]
    /\ result' = [result EXCEPT ![i] = Pending]
    /\ IF backend_path[i] # NoPath
       THEN /\ pc' = [pc EXCEPT ![i] = "check"]
            /\ UNCHANGED <<path, backend_path>>
       ELSE /\ path' = [path EXCEPT ![i] = IF debug THEN cwd ELSE NoPath]
            /\ backend_path' =
                  [backend_path EXCEPT ![i] = IF debug THEN NoPath ELSE join(cwd, "backend")]
            /\ pc' = [pc EXCEPT ![i] = IF debug THEN "locate" ELSE "check"]
    /\ UNCHANGED <<config, fs, cwd>>

\* Lines 64-72 and 98-99: the call starts; std::env::current_dir() is read
\* (and can fail).  A release build goes straight to current_dir/backend.
Call(i) ==
    /\ i \in tasks
    /\ pc[i] \in {"idle", "done"}
    /\ \E r \in requests :
        /\ command' = [command EXCEPT ![i] = r.command]
        /\ payload' = [payload EXCEPT ![i] = r.data]
    /\ payload_json' = [payload_json EXCEPT ![i] = NoText]
    /\ python_executable' = [python_executable EXCEPT ![i] = [kind |-> "none", v |-> <<>>]]
    /\ temp_file' = [temp_file EXCEPT ![i] = NoPath]
    /\ output' = [output EXCEPT ![i] = NoOutput]
    /\ worker' = [worker EXCEPT ![i] = NoWorker]
    /\ did' = [did EXCEPT ![i] = Nothing]
    /\ \/ /\ current_dir' = [current_dir EXCEPT ![i] = cwd]
          /\ result' = [result EXCEPT ![i] = Pending]
          /\ path' = [path EXCEPT ![i] = IF debug THEN cwd ELSE NoPath]
          /\ backend_path' =
                [backend_path EXCEPT ![i] = IF debug THEN NoPath ELSE join(cwd, "backend")]
          /\ pc' = [pc EXCEPT ![i] = IF debug THEN "locate" ELSE "check"]
       \/ /\ current_dir' = [current_dir EXCEPT ![i] = NoPath]
          /\ path' = [path EXCEPT ![i] = NoPath]
          /\ backend_path' = [backend_path EXCEPT ![i] = NoPath]
          /\ Return(i, Err("Failed to get current directory", OsError))
    /\ UNCHANGED <<config, fs, cwd>>

\* Line 75: the condition of the first loop.
Searching(p) == ~exists(fs, join(p, "backend")) /\ ~exists(fs, join(p, "frontend"))

\* Lines 75-77: no marker here and there is a parent: go up.
Ascend(i) ==
    /\ pc[i] = "locate"
    /\ Searching(path[i])
    /\ has_parent(path[i])
    /\ path' = [path EXCEPT ![i] = parent(path[i])]
    /\ did' = [did EXCEPT ![i].steps = @ + 1]
    /\ UNCHANGED <<config, fs, cwd, pc, command, payload, current_dir, backend_path,
                   payload_json, python_executable, temp_file, output, result, worker>>

\* Lines 78-80: no marker here and no parent.
NoWorkspace(i) ==
    /\ pc[i] = "locate"
    /\ Searching(path[i])
    /\ ~has_parent(path[i])
    /\ Return(i, Err("Could not find workspace root directory", [e |-> ""]))
    /\ UNCHANGED <<config, fs, cwd, locals, worker, did>>

\* Line 84-86: the directory names after which the second loop runs.
InBuildDir(p) ==
    file_name_is(p, "frontend") \/ file_name_is(p, "src-tauri") \/ file_name_is(p, "debug")

\* Lines 75, 84-86, 96: the first loop ends at a directory with a backend or
\* a frontend entry.
Found(i) ==
    /\ pc[i] = "locate"
    /\ ~Searching(path[i])
    /\ IF InBuildDir(path[i])
       THEN /\ pc' = [pc EXCEPT ![i] = "ascend"]
            /\ UNCHANGED backend_path
       ELSE /\ pc' = [pc EXCEPT ![i] = "check"]
            /\ backend_path' = [backend_path EXCEPT ![i] = join(path[i], "backend")]
    /\ UNCHANGED <<config, fs, cwd, command, payload, current_dir, path, payload_json,
                   python_executable, temp_file, output, result, worker, did>>

\* Lines 87-89: not yet at a directory named browser: go up.
AscendToBrowser(i) ==
    /\ pc[i] = "ascend"
    /\ ~file_name_is(path[i], "browser")
    /\ has_parent(path[i])
    /\ path' = [path EXCEPT ![i] = parent(path[i])]
    /\ did' = [did EXCEPT ![i].steps = @ + 1]
    /\ UNCHANGED <<config, fs, cwd, pc, command, payload, current_dir, backend_path,
                   payload_json, python_executable, temp_file, output, result, worker>>

\* AscendDone without the break at the root (lines 90-92).
AscendDoneAtBrowserOnly(i) ==
    /\ pc[i] = "ascend"
    /\ file_name_is(path[i], "browser")
    /\ backend_path' = [backend_path EXCEPT ![i] = join(path[i], "backend")]
    /\ pc' = [pc EXCEPT ![i] = "check"]
    /\ UNCHANGED <<config, fs, cwd, command, payload, current_dir, path, backend_path,
                   payload_json, python_executable, temp_file, output, result, worker, did>>

\* Lines 87, 90-92, 96: at browser, or at the root (break).
AscendDone(i) ==
    /\ pc[i] = "ascend"
    /\ file_name_is(path[i], "browser") \/ ~has_parent(path[i])
    /\ backend_path' = [backend_path EXCEPT ![i] = join(path[i], "backend")]
    /\ pc' = [pc EXCEPT ![i] = "check"]
    /\ UNCHANGED <<config, fs, cwd, command, payload, current_dir, path, payload_json,
                   python_executable, temp_file, output, result, worker, did>>

\* BackendMissing naming the directory the search stopped in.
BackendMissingParent(p) == Err("Backend directory does not exist", [path |-> parent(p)])

\* Line 104: the error of a missing backend directory, with the path ({:?}).
BackendMissing(p) == Err("Backend directory does not exist", [path |-> p])

\* Lines 103-109: the backend directory must exist; the payload is encoded.
CheckBackend(i) ==
    /\ pc[i] = "check"
    /\ IF ~exists(fs, backend_path[i])
       THEN /\ Return(i, BackendMissing(backend_path[i]))
            /\ UNCHANGED payload_json
       ELSE /\ \E order \in Orders(DOMAIN payload[i]) :
                 payload_json' = [payload_json EXCEPT ![i] = to_string(payload[i], order)]
            /\ pc' = [pc EXCEPT ![i] = "resolve"]
            /\ UNCHANGED result
    /\ UNCHANGED <<config, fs, cwd, command, payload, current_dir, path, backend_path,
                   python_executable, temp_file, output, worker, did>>

\* Lines 118-134: the interpreter of the virtual environment when it exists,
\* the bare command otherwise.
venv_python(os_windows, backend) ==
    IF os_windows THEN join(join(join(backend, "venv"), "Scripts"), "python.exe")
    ELSE join(join(join(backend, "venv"), "bin"), "python")
\* Executable with the Unix layout and command name on every OS.
ExecutableUnixLayout(files, os_windows, backend) ==
    IF exists(files, venv_python(FALSE, backend))
    THEN [kind |-> "path", v |-> venv_python(FALSE, backend)]
    ELSE [kind |-> "command", v |-> <<"python">>]

Executable(files, os_windows, backend) ==
    IF exists(files, venv_python(os_windows, backend))
    THEN [kind |-> "path", v |-> venv_python(os_windows, backend)]
    ELSE [kind |-> "command", v |-> <<IF os_windows THEN "python.exe" ELSE "python">>]

ResolveExecutable(i) ==
    /\ pc[i] = "resolve"
    /\ python_executable' =
          [python_executable EXCEPT ![i] = Executable(fs, windows, backend_path[i])]
    /\ pc' = [pc EXCEPT ![i] = "create"]
    /\ UNCHANGED <<config, fs, cwd, command, payload, current_dir, path, backend_path,
                   payload_json, temp_file, output, result, worker, did>>

\* TempFile joined to the workspace root (path) in place of backend_path.
TempFileInWorkspaceRoot(backend) == join(parent(backend), "temp_payload.json")

\* Line 139: the request file's path.
TempFile(backend) == join(backend, "temp_payload.json")

\* What a write of `data` at offset 0 leaves in a file that holds `old`.
Overlay(data, old) ==
    IF Len(old) > Len(data) THEN data \o SubSeq(old, Len(data) + 1, Len(old)) ELSE data

\* CreateTemp opening the file without truncating it: what an earlier call
\* left in the file stays until it is overwritten.
CreateTempNoTruncate(i) ==
    /\ pc[i] = "create"
    /\ temp_file' = [temp_file EXCEPT ![i] = TempFile(backend_path[i])]
    /\ \/ /\ Lookup(fs, backend_path[i]).kind = "dir"
          /\ Lookup(fs, TempFile(backend_path[i])).kind # "dir"
          /\ fs' = IF exists(fs, TempFile(backend_path[i])) THEN fs
                   ELSE WithEntry(fs, TempFile(backend_path[i]), File(<<>>))
          /\ did' = [did EXCEPT ![i].created = TRUE]
          /\ pc' = [pc EXCEPT ![i] = "write"]
          /\ UNCHANGED result
       \/ /\ Return(i, Err("Failed to write temp file", OsError))
          /\ UNCHANGED <<fs, did>>
    /\ UNCHANGED <<config, cwd, command, payload, current_dir, path, backend_path,
                   payload_json, python_executable, output, worker>>

\* Lines 139-141, first half of std::fs::write: File::create makes the file
\* or truncates the one that is there; it can fail.
CreateTemp(i) ==
    /\ pc[i] = "create"
    /\ temp_file' = [temp_file EXCEPT ![i] = TempFile(backend_path[i])]
    /\ \/ /\ Lookup(fs, backend_path[i]).kind = "dir"
          /\ Lookup(fs, TempFile(backend_path[i])).kind # "dir"
          /\ fs' = WithEntry(fs, TempFile(backend_path[i]), File(<<>>))
          /\ did' = [did EXCEPT ![i].created = TRUE]
          /\ pc' = [pc EXCEPT ![i] = "write"]
          /\ UNCHANGED result
       \/ /\ Return(i, Err("Failed to write temp file", OsError))
          /\ UNCHANGED <<fs, did>>
    /\ UNCHANGED <<config, cwd, command, payload, current_dir, path, backend_path,
                   payload_json, python_executable, output, worker>>

\* Lines 140-141, second half of std::fs::write: write_all of payload_json
\* into the file that was opened (which may have been unlinked since); it
\* can fail, and then the error is returned with the file left behind.
WriteTemp(i) ==
    /\ pc[i] = "write"
    /\ \/ /\ fs' = IF Lookup(fs, temp_file[i]).kind = "file"
                   THEN WithEntry(fs, temp_file[i],
                                  File(Overlay(payload_json[i], fs[temp_file[i]].data)))
                   ELSE fs
          /\ pc' = [pc EXCEPT ![i] = "spawn"]
          /\ UNCHANGED result
       \/ /\ Return(i, Err("Failed to write temp file", OsError))
          /\ UNCHANGED fs
    /\ UNCHANGED <<config, cwd, locals, worker, did>>

\* Lines 143-149: the process to run.
WorkerProcess(program, cmd, file, backend) ==
    [state |-> "running", program |-> program,
     args |-> [script |-> "main.py", command |-> cmd, payload_file |-> file],
     current_dir |-> backend,
     env |-> [PYTHONIOENCODING |-> "utf-8", PYTHONPATH |-> backend],
     read |-> FALSE, found |-> Missing]

\* Lines 143-151: Command::output() starts the process, or fails to, and
\* then `?` returns the error at once.
Spawn(i) ==
    /\ pc[i] = "spawn"
    /\ \/ /\ worker' = [worker EXCEPT ![i] =
                WorkerProcess(python_executable[i], command[i], temp_file[i], backend_path[i])]
          /\ did' = [did EXCEPT ![i].spawned = TRUE]
          /\ pc' = [pc EXCEPT ![i] = "wait"]
          /\ UNCHANGED result
       \/ /\ Return(i, Err("Failed to execute Python command", OsError))
          /\ UNCHANGED <<worker, did>>
    /\ UNCHANGED <<config, fs, cwd, locals>>

\* main.py opens the file it was given, at some moment of its run.
WorkerRead(i) ==
    /\ worker[i].state = "running"
    /\ ~worker[i].read
    /\ worker' = [worker EXCEPT ![i].read = TRUE,
                                ![i].found = Lookup(fs, worker[i].args.payload_file)]
    /\ UNCHANGED <<config, fs, cwd, pc, locals, result, did>>

\* WorkerExit with a deadline on the wait: output() may give up on a worker
\* that is still running and report it as failed.
WorkerExitOrTimeout(i) ==
    /\ pc[i] = "wait"
    /\ worker[i].state = "running"
    /\ \/ /\ \E o \in Outcomes(main_py) : output' = [output EXCEPT ![i] = o]
          /\ worker' = [worker EXCEPT ![i].state = "exited"]
       \/ /\ output' = [output EXCEPT ![i] = Outcome(1, <<>>, <<Junk("timed out")>>)]
          /\ UNCHANGED worker
    /\ pc' = [pc EXCEPT ![i] = "remove"]
    /\ UNCHANGED <<config, fs, cwd, command, payload, current_dir, path, backend_path,
                   payload_json, python_executable, temp_file, result, did>>

\* Line 150: main.py exits and output() returns what it captured.
WorkerExit(i) ==
    /\ pc[i] = "wait"
    /\ worker[i].state = "running"
    /\ \E o \in Outcomes(main_py) : output' = [output EXCEPT ![i] = o]
    /\ worker' = [worker EXCEPT ![i].state = "exited"]
    /\ pc' = [pc EXCEPT ![i] = "remove"]
    /\ UNCHANGED <<config, fs, cwd, command, payload, current_dir, path, backend_path,
                   payload_json, python_executable, temp_file, result, did>>

\* RemoveTemp placed after the status check: a failed command keeps the file.
RemoveTempOnSuccess(i) ==
    /\ pc[i] = "remove"
    /\ \/ /\ output[i].status = 0
          /\ Lookup(fs, temp_file[i]).kind = "file"
          /\ fs' = Without(fs, temp_file[i])
          /\ did' = [did EXCEPT ![i].removed = "ok"]
       \/ /\ output[i].status = 0
          /\ did' = [did EXCEPT ![i].removed = "failed"]
          /\ UNCHANGED fs
       \/ /\ output[i].status # 0
          /\ UNCHANGED <<fs, did>>
    /\ pc' = [pc EXCEPT ![i] = "status"]
    /\ UNCHANGED <<config, cwd, locals, result, worker>>

\* Line 154: let _ = std::fs::remove_file(&temp_file): the file is removed,
\* or the removal fails (no such file, permissions) and nothing is said.
RemoveTemp(i) ==
    /\ pc[i] = "remove"
    /\ \/ /\ Lookup(fs, temp_file[i]).kind = "file"
          /\ fs' = Without(fs, temp_file[i])
          /\ did' = [did EXCEPT ![i].removed = "ok"]
       \/ /\ did' = [did EXCEPT ![i].removed = "failed"]
          /\ UNCHANGED fs
    /\ pc' = [pc EXCEPT ![i] = "status"]
    /\ UNCHANGED <<config, cwd, locals, result, worker>>

\* Response with the decoding tried before the exit status is looked at.
ResponseDecodeFirst(o) ==
    LET response_str == from_utf8_lossy(o.stdout)
        response == from_str(response_str)
    IN IF response.ok THEN Ok(response.val)
       ELSE IF o.status # 0
       THEN Err("Python command failed",
                [stderr |-> from_utf8_lossy(o.stderr), stdout |-> response_str])
       ELSE Err("Failed to parse Python response", [response |-> response_str])

\* Lines 156-171: what the call returns for the captured output.
Response(o) ==
    IF o.status # 0
    THEN Err("Python command failed",
             [stderr |-> from_utf8_lossy(o.stderr), stdout |-> from_utf8_lossy(o.stdout)])
    ELSE LET response_str == from_utf8_lossy(o.stdout)
             response == from_str(response_str)
         IN IF response.ok THEN Ok(response.val)
            ELSE Err("Failed to parse Python response", [response |-> response_str])

\* Finish with the result of remove_file propagated (`?` in place of let _).
FinishEscalating(i) ==
    /\ pc[i] = "status"
    /\ Return(i, IF did[i].removed = "failed"
                 THEN Err("Failed to remove temp file", OsError)
                 ELSE Response(output[i]))
    /\ UNCHANGED <<config, fs, cwd, locals, worker, did>>

\* Lines 156-171: the call returns, from the captured output alone.
Finish(i) ==
    /\ pc[i] = "status"
    /\ Return(i, Response(output[i]))
    /\ UNCHANGED <<config, fs, cwd, locals, worker, did>>

\* The caller has taken what the call returned; no call of task i is in
\* progress any more.
Deliver(i) ==
    /\ mutable
    /\ pc[i] = "done"
    /\ pc' = [pc EXCEPT ![i] = "idle"]
    /\ UNCHANGED <<config, fs, cwd, locals, result, worker, did>>

\* Between invocations the process changes its working directory
\* (std::env::set_current_dir); line 66 reads it anew.
SetCurrentDir ==
    /\ mutable
    /\ \A i \in tasks : pc[i] = "idle"
    /\ \E d \in Places :
          /\ d # cwd
          /\ Lookup(fs, d).kind = "dir"
          /\ cwd' = d
    /\ UNCHANGED <<config, fs, pc, locals, result, worker, did>>

\* Between invocations a backend directory is made, or is removed with
\* what it holds; lines 75 and 103 look at the disk anew.
ChangeLayout ==
    /\ mutable
    /\ \A i \in tasks : pc[i] = "idle"
    /\ \E b \in BackendPlaces :
          \/ /\ ~exists(fs, b)
             /\ fs' = WithEntry(fs, b, Dir)
          \/ /\ exists(fs, b)
             /\ fs' = WithoutTree(fs, b)
    /\ UNCHANGED <<config, cwd, pc, locals, result, worker, did>>

Next ==
    \/ SetCurrentDir
    \/ ChangeLayout
    \/ \E i \in Tasks :
        \/ Call(i)
        \/ Ascend(i)
        \/ NoWorkspace(i)
        \/ Found(i)
        \/ AscendToBrowser(i)
        \/ AscendDone(i)
        \/ CheckBackend(i)
        \/ ResolveExecutable(i)
        \/ CreateTemp(i)
        \/ WriteTemp(i)
        \/ Spawn(i)
        \/ WorkerRead(i)
        \/ WorkerExit(i)
        \/ RemoveTemp(i)
        \/ Finish(i)
        \/ Deliver(i)

Spec == Init /\ [][Next]_vars

\* The steps call_python_backend takes by itself once it has been called:
\* straight-line code on a running thread, which goes on until it returns or
\* blocks in output().  Neither the caller (Call) nor the worker process
\* (WorkerRead, WorkerExit) is bound to take a step.
BridgeStep(i) ==
    \/ Ascend(i) \/ NoWorkspace(i) \/ Found(i) \/ AscendToBrowser(i) \/ AscendDone(i)
    \/ CheckBackend(i) \/ ResolveExecutable(i) \/ CreateTemp(i) \/ WriteTemp(i)
    \/ Spawn(i) \/ RemoveTemp(i)

\* Weak fairness of Finish(i), with ENABLED <<Finish(i)>>_vars written as the
\* state predicate it is equivalent to (Finish(i) is enabled exactly at
\* pc[i] = "status" and always changes pc).
FinishFair(i) == <>[](pc[i] = "status") => []<><<Finish(i)>>_vars

\* The specification for what must eventually happen: the scenario families
\* with one invocation at a time in which the worker prints one of a few
\* outputs, with the bridge's own steps weakly fair.
FairInit == InitLocals /\ (InitLocate \/ InitResolve \/ InitRederive)
FairSpec ==
    /\ FairInit /\ [][Next]_vars
    /\ \A i \in Tasks : WF_vars(BridgeStep(i)) /\ FinishFair(i)

(***************************************************************************)
(* Properties.                                                             *)
(***************************************************************************)
\* The call of task i has returned.
Returned(i) == i \in tasks /\ pc[i] = "done"
\* The call of task i has returned after its worker ran and exited.
Completed(i) == Returned(i) /\ did[i].spawned /\ worker[i].state = "exited"
\* Task i is the only one: invocations run one at a time.
Alone(i) == tasks = {i}
\* What the call of task i decodes: the captured stdout as text, and parsed.
StdoutText(i) == from_utf8_lossy(output[i].stdout)
Parsed(i) == ParseJson(StdoutText(i))
ParseFailure(i) == Err("Failed to parse Python response", [response |-> StdoutText(i)])
KeyCount(members, key) == Cardinality({n \in 1..Len(members) : members[n].key = key})

\* The response schema as the interface states it: the optional fields and
\* the type each is declared with.
SchemaOptional ==
    {"error", "message", "response", "timestamp", "url", "title", "content", "type",
     "data", "count", "analysis", "keywords", "summary", "id", "session_id", "role",
     "messages", "model", "context_summary", "history"}
SchemaType(f) ==
    CASE f \in {"data", "context_summary"} -> "any"
      [] f = "count" -> "integer"
      [] f = "keywords" -> "string[]"
      [] f \in {"messages", "history"} -> "any[]"
      [] OTHER -> "string"
\* The number a digit sequence writes.
RECURSIVE DigitsValue(_)
DigitsValue(ds) ==
    IF Len(ds) = 0 THEN 0 ELSE 10 * DigitsValue(SubSeq(ds, 1, Len(ds) - 1)) + ds[Len(ds)]
\* -2147483648 <= num <= 2147483647, on the upper and the lower five digits.
InSigned32(num) ==
    \/ Len(num.digits) < 10
    \/ /\ Len(num.digits) = 10
       /\ LET hi == DigitsValue(SubSeq(num.digits, 1, 5))
              lo == DigitsValue(SubSeq(num.digits, 6, 10))
          IN hi < 21474 \/ (hi = 21474 /\ lo <= (IF num.neg THEN 83648 ELSE 83647))
OfSchemaType(f, val) ==
    CASE SchemaType(f) = "any" -> TRUE
      [] SchemaType(f) = "string" -> val.t = "str"
      [] SchemaType(f) = "integer" -> val.t = "num" /\ ~val.frac /\ InSigned32(val)
      [] SchemaType(f) = "string[]" ->
            val.t = "arr" /\ \A n \in 1..Len(val.elems) : val.elems[n].t = "str"
      [] SchemaType(f) = "any[]" -> val.t = "arr"

\* A JSON object in which success occurs once, as a boolean, and every
\* optional field at most once.
SuccessAndFieldsOnce(val) ==
    /\ val.t = "obj"
    /\ KeyCount(val.members, "success") = 1
    /\ \A n \in 1..Len(val.members) :
          val.members[n].key = "success" => val.members[n].val.t = "bool"
    /\ \A f \in SchemaOptional : KeyCount(val.members, f) <= 1
\* Every optional field that is present holds a value of its declared type
\* (orNull: or JSON null).
FieldsTyped(val, orNull) ==
    \A n \in 1..Len(val.members) :
        val.members[n].key \in SchemaOptional =>
            \/ OfSchemaType(val.members[n].key, val.members[n].val)
            \/ orNull /\ val.members[n].val.t = "null"

\* C1: in every interleaving of two invocations in the same backend
\* directory, what a worker finds at the path it was given is the JSON its
\* own invocation encoded.
C1_WorkerFindsOwnPayload ==
    \A i \in tasks :
        worker[i].read => worker[i].found = File(payload_json[i])

\* C2 as stated: with one invocation at a time, once the worker has run and
\* exited and the call has returned, the temp file is absent.
C2_FileAbsentAfterWorker ==
    \A i \in tasks :
        (Alone(i) /\ Completed(i)) => ~exists(fs, temp_file[i])

\* C2 as amended: with one invocation at a time, once the worker has run and
\* exited and the call has returned, remove_file has been called on the temp
\* file, for every outcome of the worker, and the file is absent when that
\* removal succeeded.
C2_RemovalAttemptedAfterWorker ==
    \A i \in tasks :
        (Alone(i) /\ Completed(i)) =>
            /\ did[i].removed # "no"
            /\ did[i].removed = "ok" => ~exists(fs, temp_file[i])

C2_Witness ==
    \E i \in tasks :
        /\ Alone(i) /\ Completed(i)
        /\ output[i].status # 0
        /\ did[i].removed = "ok"
        /\ ~exists(fs, temp_file[i])

\* C3: when the temp file was created and the spawn failed, the call has
\* attempted to delete the file before it returns the spawn error.
C3_RemovalAttemptedAfterSpawnFailure ==
    \A i \in tasks :
        (Returned(i) /\ did[i].created
         /\ result[i] = Err("Failed to execute Python command", OsError)) =>
            did[i].removed # "no"

\* C4: a worker that exits non-zero yields the "Python command failed" error
\* holding the captured stderr and stdout (as text), never a response,
\* whatever the stdout is.
C4_NonZeroExitIsError ==
    \A i \in tasks :
        (Completed(i) /\ output[i].status # 0) =>
            result[i] = Err("Python command failed",
                            [stderr |-> from_utf8_lossy(output[i].stderr),
                             stdout |-> from_utf8_lossy(output[i].stdout)])

C4_Witness ==
    \E i \in tasks :
        /\ Completed(i)
        /\ output[i].status # 0
        /\ from_str(StdoutText(i)).ok
        /\ output[i].stderr # <<>>
        /\ result[i].tag = "Err"

\* C5: a worker that exits 0 with a stdout that is not valid JSON, or is
\* valid JSON but not an object, yields the parse error holding the stdout
\* text, and no response.
C5_NonObjectIsMalformed ==
    \A i \in tasks :
        (Completed(i) /\ output[i].status = 0
         /\ (~Parsed(i).ok \/ Parsed(i).val.t # "obj")) =>
            result[i] = ParseFailure(i)

\* C6 as stated: a worker that exits 0 with a JSON object holding a boolean
\* success and a set S of the optional fields (each with a value of its
\* type) yields Ok with exactly the fields of S present.
C6_ExactlyGivenFieldsPresent ==
    \A i \in tasks :
        (Completed(i) /\ output[i].status = 0 /\ Parsed(i).ok
         /\ SuccessAndFieldsOnce(Parsed(i).val) /\ FieldsTyped(Parsed(i).val, FALSE)) =>
            /\ result[i].tag = "Ok"
            /\ \A f \in SchemaOptional :
                  result[i].response[f].some <=> KeyCount(Parsed(i).val.members, f) = 1

\* C6 as amended: a worker that exits 0 with a JSON object holding success
\* once, as a boolean, and a set S of the optional fields, each once and
\* with null or a value of its type, yields Ok with exactly the fields of S
\* whose value is not null present, holding that value, and every other
\* optional field absent.
C6_ExactlyNonNullFieldsPresent ==
    \A i \in tasks :
        (Completed(i) /\ output[i].status = 0 /\ Parsed(i).ok
         /\ SuccessAndFieldsOnce(Parsed(i).val) /\ FieldsTyped(Parsed(i).val, TRUE)) =>
            /\ result[i].tag = "Ok"
            /\ LET ms == Parsed(i).val.members IN
               \A f \in SchemaOptional :
                  /\ result[i].response[f].some <=>
                        \E n \in 1..Len(ms) : ms[n].key = f /\ ms[n].val.t # "null"
                  /\ \A n \in 1..Len(ms) :
                        (ms[n].key = f /\ ms[n].val.t # "null") =>
                            result[i].response[f].val = ms[n].val

C6_Witness ==
    \E i \in tasks :
        /\ Completed(i) /\ output[i].status = 0 /\ Parsed(i).ok
        /\ SuccessAndFieldsOnce(Parsed(i).val)
        /\ KeyCount(Parsed(i).val.members, "keywords") = 1
        /\ KeyCount(Parsed(i).val.members, "error") = 1
        /\ result[i].tag = "Ok"
        /\ result[i].response["keywords"].some
        /\ ~result[i].response["error"].some
        /\ ~result[i].response["count"].some

\* C7 as stated: a worker that exits 0 with a JSON object holding a boolean
\* success always yields a response, whatever optional fields the object
\* holds and whatever their values are.
C7_AnyObjectWithSuccessDecodes ==
    \A i \in tasks :
        (Completed(i) /\ output[i].status = 0 /\ Parsed(i).ok
         /\ SuccessAndFieldsOnce(Parsed(i).val)) =>
            result[i].tag = "Ok"

\* C7 as amended: decoding enforces JSON validity, the object shape and the
\* declared type of every field that is present.  A worker that exits 0
\* with a JSON object yields a response exactly when success occurs once as
\* a boolean and every optional field occurs at most once with null or a
\* value of its type (unknown keys do not matter); otherwise it yields the
\* parse error holding the stdout text.
C7_ObjectDecodesIffFieldsTyped ==
    \A i \in tasks :
        (Completed(i) /\ output[i].status = 0 /\ Parsed(i).ok
         /\ Parsed(i).val.t = "obj") =>
            IF SuccessAndFieldsOnce(Parsed(i).val) /\ FieldsTyped(Parsed(i).val, TRUE)
            THEN result[i].tag = "Ok"
            ELSE result[i] = ParseFailure(i)

C7_Witness ==
    \E i \in tasks :
        /\ Completed(i) /\ output[i].status = 0 /\ Parsed(i).ok
        /\ SuccessAndFieldsOnce(Parsed(i).val)
        /\ \E n \in 1..Len(Parsed(i).val.members) :
              /\ Parsed(i).val.members[n].key = "count"
              /\ Parsed(i).val.members[n].val = JNum(FALSE, I32MinDigits, FALSE)
        /\ \E n \in 1..Len(Parsed(i).val.members) :
              Parsed(i).val.members[n].key = "extra"
        /\ result[i] = ParseFailure(i)

\* The ancestors-or-self of p that hold an entry named backend, and the
\* nearest of them.
WithBackend(p) == {a \in Prefixes(p) : exists(fs, join(a, "backend"))}
Nearest(S) == CHOOSE a \in S : \A b \in S : Len(b) <= Len(a)

\* C8: in a debug build, when the working directory or an ancestor of it
\* holds backend, the locator resolves to the backend of the nearest such
\* directory, after as many steps up as there are levels between them, and
\* the call goes on to spawn there (it does not stop with a locating error).
C8_NearestBackendResolved ==
    \A i \in tasks :
        (debug /\ i \in tasks /\ current_dir[i] # NoPath
         /\ pc[i] \notin {"idle", "locate", "ascend"}
         /\ WithBackend(current_dir[i]) # {}) =>
            /\ backend_path[i] = join(Nearest(WithBackend(current_dir[i])), "backend")
            /\ did[i].steps = Len(current_dir[i]) - Len(Nearest(WithBackend(current_dir[i])))
            /\ Returned(i) =>
                  ~(result[i].tag = "Err"
                    /\ result[i].kind \in {"Could not find workspace root directory",
                                           "Backend directory does not exist"})

\* C9: in a debug build, when neither the working directory nor any
\* ancestor holds backend, the call fails with the workspace-not-found
\* error, and has written no temp file and spawned no process.
C9_NoBackendIsWorkspaceNotFound ==
    \A i \in tasks :
        (debug /\ Returned(i) /\ current_dir[i] # NoPath
         /\ WithBackend(current_dir[i]) = {}) =>
            /\ result[i] = Err("Could not find workspace root directory", [e |-> ""])
            /\ ~did[i].created
            /\ ~did[i].spawned

\* The errors of the steps before the spawn.
BeforeSpawnErrors ==
    {"Failed to get current directory", "Could not find workspace root directory",
     "Backend directory does not exist", "Failed to serialize payload",
     "Failed to write temp file"}

\* C10: a call that returns without having spawned a worker returns the
\* error of the step that failed, and a call that returns the error of a
\* step before the spawn has spawned no worker; the error of a missing
\* backend directory holds the path that was checked, which does not exist,
\* and no temp file has been created.
C10_EarlyFailureSpawnsNothing ==
    \A i \in tasks :
        Returned(i) =>
            /\ ~did[i].spawned =>
                  /\ result[i].tag = "Err"
                  /\ result[i].kind \in BeforeSpawnErrors \cup {"Failed to execute Python command"}
            /\ (result[i].tag = "Err" /\ result[i].kind \in BeforeSpawnErrors) =>
                  /\ ~did[i].spawned
                  /\ worker[i].state = "none"
            /\ (result[i].tag = "Err" /\ result[i].kind = "Backend directory does not exist") =>
                  /\ result[i].info.path = backend_path[i]
                  /\ backend_path[i] # NoPath
                  /\ ~exists(fs, backend_path[i])
                  /\ ~did[i].created

C10_Witness ==
    \E i \in tasks :
        /\ Returned(i)
        /\ result[i].tag = "Err"
        /\ result[i].kind = "Backend directory does not exist"
        /\ result[i].info.path = join(current_dir[i], "backend")
        /\ ~did[i].created /\ ~did[i].spawned /\ worker[i].state = "none"

\* C11: in a release build the backend directory the call uses is the one
\* next to the running executable, also when the working directory is
\* another directory.
C11_ReleaseUsesExecutableDir ==
    \A i \in tasks :
        (~debug /\ current_dir[i] # NoPath /\ pc[i] \notin {"idle", "locate", "ascend"}) =>
            backend_path[i] = join(exe_dir, "backend")

\* C12: what a call returns after its worker has exited is decided by the
\* worker's exit status and stdout alone, whether remove_file succeeded or
\* failed: a non-zero status gives the command-failed error, status 0 gives
\* the decoded response or the parse error, two calls with the same worker
\* output return the same value, and no returned error is about the removal.
C12_DeletionFailureNotEscalated ==
    /\ \A i \in tasks :
          Completed(i) =>
              /\ did[i].removed \in {"ok", "failed"}
              /\ IF output[i].status # 0
                 THEN result[i] = Err("Python command failed",
                                      [stderr |-> from_utf8_lossy(output[i].stderr),
                                       stdout |-> StdoutText(i)])
                 ELSE \/ result[i] = ParseFailure(i)
                      \/ /\ result[i].tag = "Ok"
                         /\ from_str(StdoutText(i)).ok
                         /\ result[i].response = from_str(StdoutText(i)).val
    /\ \A i, j \in tasks :
          (Completed(i) /\ Completed(j) /\ output[i] = output[j]) => result[i] = result[j]

C12_Witness ==
    \E i, j \in tasks :
        /\ Completed(i) /\ Completed(j)
        /\ output[i] = output[j] /\ output[i].status = 0
        /\ did[i].removed = "ok" /\ did[j].removed = "failed"
        /\ result[i] = result[j] /\ result[i].tag = "Ok"

\* C13: while the worker a call has spawned is running, the call stays in
\* output() and has returned nothing; when the worker never exits the call
\* never returns; and once the worker has exited the call goes on to
\* return a result.
C13_WaitsForWorkerExit ==
    \A i \in Tasks :
        /\ [](worker[i].state = "running" => (pc[i] = "wait" /\ result[i] = Pending))
        /\ (worker[i].state = "exited" /\ pc[i] \in {"remove", "status"}) ~> Returned(i)

C13_Witness ==
    \E i \in tasks :
        /\ did[i].spawned /\ worker[i].state = "running" /\ worker[i].read
        /\ pc[i] = "wait" /\ result[i] = Pending

\* Where the two loops of the locator end for working directory wd on the
\* filesystem files: the nearest ancestor-or-self of wd with an entry named
\* backend or frontend (or the root), and from there, when that directory is
\* named frontend, src-tauri or debug, the nearest ancestor-or-self named
\* browser (or the root).
RECURSIVE MarkerStop(_, _), BrowserStop(_)
MarkerStop(files, p) ==
    IF Len(p) = 0 \/ Append(p, "backend") \in DOMAIN files
       \/ Append(p, "frontend") \in DOMAIN files
    THEN p ELSE MarkerStop(files, SubSeq(p, 1, Len(p) - 1))
BrowserStop(p) ==
    IF Len(p) = 0 \/ p[Len(p)] = "browser" THEN p ELSE BrowserStop(SubSeq(p, 1, Len(p) - 1))
\* The backend directory a call made now would use (NoPath: none, the
\* workspace is not found).
Derived(files, dbg, wd) ==
    IF ~dbg THEN Append(wd, "backend")
    ELSE LET stop == MarkerStop(files, wd) IN
         IF Append(stop, "backend") \notin DOMAIN files
            /\ Append(stop, "frontend") \notin DOMAIN files
         THEN NoPath
         ELSE IF Len(stop) > 0 /\ stop[Len(stop)] \in {"frontend", "src-tauri", "debug"}
         THEN Append(BrowserStop(stop), "backend")
         ELSE Append(stop, "backend")

\* C14: every call works with the working directory and the directory
\* layout as they are during that call, whatever earlier calls resolved:
\* once located, its backend directory is the one the locator derives from
\* the process's working directory and the filesystem of that moment, and
\* it returns the workspace-not-found error exactly when there is none.
C14_WorkspaceDerivedEachCall ==
    \A i \in tasks :
        (pc[i] \notin {"idle", "locate", "ascend"} /\ current_dir[i] # NoPath) =>
            /\ current_dir[i] = cwd
            /\ IF Derived(fs, debug, cwd) = NoPath
               THEN result[i] = Err("Could not find workspace root directory", [e |-> ""])
               ELSE /\ backend_path[i] = Derived(fs, debug, cwd)
                    /\ ~(result[i].tag = "Err"
                         /\ result[i].kind = "Could not find workspace root directory")

\* A call in /app after an earlier call worked in /browser/backend (and
\* left its request file there) and /app/backend was made since.
C14_Witness ==
    \E i \in tasks :
        /\ mutable /\ debug
        /\ exists(fs, <<"browser", "backend", "temp_payload.json">>)
        /\ cwd = <<"app">>
        /\ pc[i] = "wait"
        /\ backend_path[i] = <<"app", "backend">>

\* C15: once a call has resolved its interpreter, that is the path
\* venv/Scripts/python.exe (Windows) or venv/bin/python (otherwise) under
\* its backend directory exactly when that path exists on disk, and the
\* bare command python.exe (Windows) or python (otherwise) exactly when it
\* does not.
C15_IsolatedInterpreterIffOnDisk ==
    \A i \in tasks :
        (pc[i] \notin {"idle", "locate", "ascend", "check", "resolve"}
         /\ python_executable[i].kind # "none") =>
            LET isolated == backend_path[i] \o (IF windows THEN <<"venv", "Scripts", "python.exe">>
                                                ELSE <<"venv", "bin", "python">>)
            IN IF isolated \in DOMAIN fs
               THEN python_executable[i] = [kind |-> "path", v |-> isolated]
               ELSE python_executable[i] =
                       [kind |-> "command", v |-> <<IF windows THEN "python.exe" ELSE "python">>]

C15_Witness ==
    \E i \in tasks :
        /\ windows
        /\ pc[i] = "wait"
        /\ VenvWindows \in DOMAIN fs
        /\ python_executable[i] = [kind |-> "path", v |-> VenvWindows]
        /\ worker[i].program = python_executable[i]

\* C16: for every request map, what the call has encoded decodes to a JSON
\* object whose key/value pairs are those of the map (nothing lost, added or
\* changed), whatever order the map was written in.
C16_EncodedRequestDecodesToMap ==
    \A i \in tasks :
        payload_json[i] # NoText =>
            /\ payload_from_str(payload_json[i]).ok
            /\ DOMAIN payload_from_str(payload_json[i]).map = DOMAIN payload[i]
            /\ \A key \in DOMAIN payload[i] :
                  payload_from_str(payload_json[i]).map[key] = payload[i][key]

C16_Witness ==
    \E i \in tasks :
        /\ payload_json[i] # NoText
        /\ DOMAIN payload[i] = {"limit", "opts"}
        /\ payload[i]["limit"] = JNull
        /\ payload[i]["opts"] = JObj(<<Member("a", JArr(<<>>))>>)
        /\ payload_json[i][2] = StrTok("opts")
        /\ payload_from_str(payload_json[i]).ok
        /\ payload_from_str(payload_json[i]).map = payload[i]

\* C17: with one invocation at a time, whenever a call's worker is running
\* (from its spawn on), the file temp_payload.json exists in the call's
\* backend directory and holds the JSON text the call encoded, which reads
\* back as the call's request map; the worker was started with the
\* arguments main.py, the command name and that file's path, in the backend
\* directory.
C17_SpawnedWithRequestOnDisk ==
    \A i \in tasks :
        (Alone(i) /\ worker[i].state = "running") =>
            LET file == backend_path[i] \o <<"temp_payload.json">> IN
            /\ did[i].spawned /\ pc[i] = "wait"
            /\ backend_path[i] \in DOMAIN fs /\ fs[backend_path[i]].kind = "dir"
            /\ file \in DOMAIN fs /\ fs[file].kind = "file"
            /\ fs[file].data = payload_json[i]
            /\ payload_from_str(fs[file].data).ok
            /\ payload_from_str(fs[file].data).map = payload[i]
            /\ worker[i].args =
                  [script |-> "main.py", command |-> command[i], payload_file |-> file]
            /\ worker[i].current_dir = backend_path[i]

C17_Witness ==
    \E i \in tasks :
        /\ Alone(i) /\ worker[i].state = "running" /\ worker[i].read
        /\ command[i] = "process_url"
        /\ worker[i].args.command = "process_url"
        /\ worker[i].found = File(payload_json[i])
        /\ fs[worker[i].args.payload_file].data = payload_json[i]

\* C18: in every interleaving of the invocations, the file whose path a
\* worker was given exists from that worker's spawn for as long as the
\* worker runs, and no step taken while it runs removes or rewrites it.
C18_RequestFileKeptWhileWorkerRuns ==
    [][\A i \in tasks :
          /\ worker'[i].state = "running" =>
                Lookup(fs', worker'[i].args.payload_file).kind = "file"
          /\ (worker[i].state = "running" /\ worker'[i].state = "running") =>
                Lookup(fs', worker[i].args.payload_file)
                    = Lookup(fs, worker[i].args.payload_file)]_vars

\* C19: in a debug build the two loops of the locator together take at most
\* as many steps up as the working directory has components (each step
\* drops one component of the path), and they always come to an end: the
\* call goes on to check a candidate backend directory for existence, or
\* returns the workspace-not-found error; a candidate that does not exist
\* is answered with the missing-directory error.
C19_LocatorTerminates ==
    \A i \in Tasks :
        /\ []((debug /\ current_dir[i] # NoPath) =>
                /\ did[i].steps <= Len(current_dir[i])
                /\ pc[i] \in {"locate", "ascend"} =>
                      did[i].steps + Len(path[i]) = Len(current_dir[i])
                /\ (Returned(i) /\ backend_path[i] = NoPath) =>
                      result[i] = Err("Could not find workspace root directory", [e |-> ""])
                /\ (Returned(i) /\ backend_path[i] # NoPath
                    /\ backend_path[i] \notin DOMAIN fs) =>
                      result[i] = Err("Backend directory does not exist",
                                      [path |-> backend_path[i]]))
        /\ (pc[i] \in {"locate", "ascend"}) ~> (pc[i] \in {"check", "done"})

\* Both loops have run, up to the root: two steps from a working directory
\* of two components.
C19_Witness ==
    \E i \in tasks :
        /\ debug /\ pc[i] = "check"
        /\ Len(current_dir[i]) = 2 /\ did[i].steps = 2
        /\ InBuildDir(parent(current_dir[i]))
        /\ backend_path[i] = <<"backend">>

\* C20: a step of the bridge (one that moves a call on) changes no entry of
\* the filesystem but the file temp_payload.json in the backend directory
\* that call has resolved, which is an existing directory; and a step of a
\* call that has not yet created its request file changes nothing at all,
\* so a call that fails before the write leaves the filesystem as it was.
C20_OnlyRequestFileChanges ==
    [][\A i \in tasks :
          (pc'[i] # pc[i] \/ path'[i] # path[i]) =>
              /\ \A p \in DOMAIN fs \cup DOMAIN fs' :
                    Lookup(fs', p) # Lookup(fs, p) =>
                        /\ backend_path[i] # NoPath
                        /\ Lookup(fs, backend_path[i]).kind = "dir"
                        /\ p = backend_path[i] \o <<"temp_payload.json">>
              /\ ~did'[i].created => fs' = fs]_vars

\* A call that has returned with its request file written and left behind.
C20_Witness ==
    \E i \in tasks :
        /\ Returned(i) /\ did[i].created /\ did[i].removed = "no"
        /\ result[i] = Err("Failed to execute Python command", OsError)
        /\ Lookup(fs, backend_path[i] \o <<"temp_payload.json">>) = File(payload_json[i])

====
